---- MODULE Spec2Model ----
(***************************************************************************)
(* Model of aasist_bridge.py: the AASISTBridge adapter (construction,      *)
(* model loading with fallback to the mock model, detect_deepfake and its  *)
(* text scoring / fusion) and the command line entry point main().         *)
(*                                                                         *)
(* Python strings are TLA+ strings (sequences of characters).  Python      *)
(* floats are modelled as exact rationals <<numerator, denominator>> kept  *)
(* in lowest terms, so two equal numbers are equal tuples; rounding of     *)
(* IEEE doubles is not modelled.                                           *)
(***************************************************************************)
EXTENDS Integers, Sequences, FiniteSets, TLC

VARIABLES
    TORCH_AVAILABLE,    \* module flag, set once at import (lines 9-14)
    AASIST_AVAILABLE,   \* module flag, set once at import (lines 17-27)
    cuda_available,     \* value of torch.cuda.is_available()
    bridge,             \* the AASISTBridge object (its attributes), or None
    ctor,               \* arguments and environment the bridge was built with
    result,             \* outcome of the last detect_deepfake call
    model_calls,        \* number of self.model(...) calls in the last call
    raised,             \* exception raised inside the last call's try block
    argv,               \* sys.argv of the process when main() ran
    stdout,             \* the JSON object main() printed
    text,               \* argument of a direct analyze_text_patterns call
    suspicion_score     \* value returned by that call

vars == <<TORCH_AVAILABLE, AASIST_AVAILABLE, cuda_available, bridge, ctor,
          result, model_calls, raised, argv, stdout, text, suspicion_score>>

\* Python None where a string may stand
None == "None"
\* Python None where an object or dict may stand
NoneObject == [ type |-> "NoneType" ]
\* Python None where a number may stand
NoneNumber == <<>>
\* sys.argv before any process ran main()
NoArgv == <<>>

-----------------------------------------------------------------------------
(* Bounds of the model.                                                    *)

\* a text is the concatenation of at most MaxWords vocabulary chunks
MaxWords == 2
\* probabilities produced by softmax are the fractions p/q with q <= MaxDenom
MaxDenom == 4
\* logits of the real network are integers in -MaxLogit..MaxLogit
MaxLogit == 1
\* the variance of a waveform is k/10 with k in 0..MaxVariance
MaxVariance == 11

-----------------------------------------------------------------------------
(* Exact arithmetic standing for Python floats.                            *)

RECURSIVE GCD(_, _)
GCD(a, b) == IF b = 0 THEN a ELSE GCD(b, a % b)

Abs(n) == IF n < 0 THEN -n ELSE n

Rat(n, d) ==
    LET g == GCD(Abs(n), Abs(d))
        s == IF d < 0 THEN -1 ELSE 1
    IN  <<(s * n) \div g, (s * d) \div g>>

RAdd(a, b) == Rat(a[1] * b[2] + b[1] * a[2], a[2] * b[2])
RSub(a, b) == Rat(a[1] * b[2] - b[1] * a[2], a[2] * b[2])
RMul(a, b) == Rat(a[1] * b[1], a[2] * b[2])
RNeg(a) == <<-a[1], a[2]>>
RLt(a, b) == a[1] * b[2] < b[1] * a[2]
RLe(a, b) == a[1] * b[2] <= b[1] * a[2]
RGt(a, b) == RLt(b, a)
\* Python min(a, b): b only when b < a
RMin(a, b) == IF RLt(b, a) THEN b ELSE a
RMax(a, b) == IF RGt(b, a) THEN b ELSE a

Zero == Rat(0, 1)
One == Rat(1, 1)

-----------------------------------------------------------------------------
(* Python string operations used by the program.                           *)

UpperCase == "ABCDEFGHIJKLMNOPQRSTUVWXYZ"
LowerCase == "abcdefghijklmnopqrstuvwxyz"

\* the lower-case letter of every upper-case letter
LowerOf ==
    [ c \in { SubSeq(UpperCase, i, i) : i \in 1..Len(UpperCase) } |->
        LET i == CHOOSE j \in 1..Len(UpperCase) : SubSeq(UpperCase, j, j) = c
        IN  SubSeq(LowerCase, i, i) ]

\* str.lower() on one character
LowerChar(c) == IF c \in DOMAIN LowerOf THEN LowerOf[c] ELSE c

\* str.lower(): every character lowered (the recursion halves the string)
RECURSIVE Lower(_)
Lower(s) ==
    IF Len(s) = 0 THEN ""
    ELSE IF Len(s) = 1 THEN LowerChar(s)
         ELSE LET h == Len(s) \div 2
              IN  Lower(SubSeq(s, 1, h)) \o Lower(SubSeq(s, h + 1, Len(s)))

\* the Python expression  sub in s
Contains(s, sub) ==
    \E i \in 0..(Len(s) - Len(sub)) : SubSeq(s, i + 1, i + Len(sub)) = sub

\* str.find(sub) + 1: the position of the first occurrence, 0 if none
Find(s, sub) ==
    IF Contains(s, sub)
    THEN 1 + CHOOSE i \in 0..(Len(s) - Len(sub)) :
               /\ SubSeq(s, i + 1, i + Len(sub)) = sub
               /\ \A j \in 0..(i - 1) : SubSeq(s, j + 1, j + Len(sub)) # sub
    ELSE 0

\* str.replace(old, new): left to right, non-overlapping (old is non-empty)
RECURSIVE Replace(_, _, _)
Replace(s, old, new) ==
    LET k == Find(s, old)
    IN  IF k = 0 THEN s
        ELSE SubSeq(s, 1, k - 1) \o new
             \o Replace(SubSeq(s, k + Len(old), Len(s)), old, new)

\* str.split(sep): the list of fragments between occurrences of sep
RECURSIVE SplitFrom(_, _)
SplitFrom(s, sep) ==
    LET k == Find(s, sep)
    IN  IF k = 0 THEN <<s>>
        ELSE <<SubSeq(s, 1, k - 1)>>
             \o SplitFrom(SubSeq(s, k + Len(sep), Len(s)), sep)

Split(s, sep) == SplitFrom(s, sep)

-----------------------------------------------------------------------------
(* analyze_text_patterns                                                   *)

\* (pattern, weight) pairs, in the order of the source list
scam_patterns == <<
    <<"microsoft tech support", Rat(8, 10)>>,
    <<"computer virus",         Rat(7, 10)>>,
    <<"computer.*compromised",  Rat(7, 10)>>,
    <<"irs",                    Rat(8, 10)>>,
    <<"tax.*owe",               Rat(7, 10)>>,
    <<"warrant.*arrest",        Rat(9, 10)>>,
    <<"pay.*immediately",       Rat(6, 10)>>,
    <<"bank account",           Rat(5, 10)>>,
    <<"social security",        Rat(6, 10)>>,
    <<"suspicious activity",    Rat(4, 10)>>,
    <<"gift card",              Rat(6, 10)>>,
    <<"remote access",          Rat(5, 10)>>,
    <<"teamviewer",             Rat(7, 10)>>,
    <<"urgent",                 Rat(3, 10)>>,
    <<"immediately",            Rat(3, 10)>> >>

authorities == <<"microsoft", "irs", "government", "police", "bank", "fbi">>

AuthorityBonus == Rat(3, 10)

\* PatternHit, were every fragment of a pattern required
PatternHit_all_fragments(pattern, text_lower) ==
    \/ Contains(text_lower, Replace(pattern, ".*", " "))
    \/ LET words == Split(pattern, ".*")
       IN  \A i \in 1..Len(words) : Contains(text_lower, words[i])

\* the condition of the if statement inside the pattern loop
PatternHit(pattern, text_lower) ==
    \/ Contains(text_lower, Replace(pattern, ".*", " "))
    \/ LET words == Split(pattern, ".*")
       IN  \E i \in 1..Len(words) : Contains(text_lower, words[i])

\* the for loop: suspicion_score after patterns i..Len(scam_patterns)
RECURSIVE PatternLoop(_, _, _)
PatternLoop(i, text_lower, score) ==
    IF i > Len(scam_patterns) THEN score
    ELSE PatternLoop(i + 1, text_lower,
                     IF PatternHit(scam_patterns[i][1], text_lower)
                     THEN RAdd(score, scam_patterns[i][2])
                     ELSE score)

\* analyze_text_patterns, were the cap at 1.0 missing
analyze_text_patterns_unclamped(t) ==
    LET text_lower == Lower(t)
        after_loop == PatternLoop(1, text_lower, Zero)
    IN  IF \E a \in 1..Len(authorities) : Contains(text_lower, authorities[a])
        THEN RAdd(after_loop, AuthorityBonus)
        ELSE after_loop

analyze_text_patterns(t) ==
    LET text_lower == Lower(t)
        after_loop == PatternLoop(1, text_lower, Zero)
        with_bonus ==
            IF \E a \in 1..Len(authorities) : Contains(text_lower, authorities[a])
            THEN RAdd(after_loop, AuthorityBonus)
            ELSE after_loop
    IN  RMin(with_bonus, One)

-----------------------------------------------------------------------------
(* Input texts.                                                            *)

AllPatternsText ==
    "microsoft tech support computer virus irs tax warrant pay bank account social security suspicious activity gift card remote access teamviewer urgent immediately"

Vocabulary ==
    { " ", "first", "URGENT", "owe", "computer ", "compromised", "fbi",
      "bank", " account", "gift ", "card", "remote access", AllPatternsText }

RECURSIVE Join(_)
Join(ws) == IF Len(ws) = 0 THEN "" ELSE Head(ws) \o Join(Tail(ws))

TextsUpTo(n) == { Join(ws) : ws \in UNION { [1..k -> Vocabulary] : k \in 0..n } }

Texts == TextsUpTo(MaxWords)

-----------------------------------------------------------------------------
(* AASISTBridge: construction and model loading.                           *)

\* Python truthiness of an optional string argument
Truthy(x) == x # None /\ x # ""

ModelPaths == { None, "null", "", "model.pth" }
ConfigPaths == { None, "null", "config.json" }

\* every statement of load_model's try block that can raise
LoadStepNames ==
    { "config_exists", "open", "json_load", "in_config_data", "update",
      "Model", "to", "model_exists", "torch_load", "load_state_dict", "eval" }

\* what load_model finds on the file system, and the statement (if any)
\* that raises an exception when it is executed
LoadEnvs ==
    [ config_exists : BOOLEAN, config_has_section : BOOLEAN,
      model_exists : BOOLEAN, fault : LoadStepNames \cup { "none" } ]

\* the attributes __init__ sets before loading anything
NewBridge ==
    [ model |-> None,
      device |-> IF TORCH_AVAILABLE
                 THEN (IF cuda_available THEN "cuda" ELSE "cpu")
                 ELSE "cpu",
      model_loaded |-> FALSE,
      use_mock |-> FALSE ]

\* load_mock_model, were use_mock left as __init__ set it
load_mock_model_flag_unset(self) ==
    IF ~TORCH_AVAILABLE THEN self
    ELSE [self EXCEPT !.model = "MockAASISTModel",
                      !.model_loaded = TRUE]

\* load_mock_model, were the torch check missing
load_mock_model_unguarded(self) ==
    [self EXCEPT !.model = "MockAASISTModel",
                 !.model_loaded = TRUE,
                 !.use_mock = TRUE]

load_mock_model(self) ==
    IF ~TORCH_AVAILABLE THEN self
    ELSE [self EXCEPT !.model = "MockAASISTModel",
                      !.model_loaded = TRUE,
                      !.use_mock = TRUE]

\* the statements of the try block in execution order, were none to raise
LoadSteps(model_path, config_path, env) ==
    LET checked == Truthy(config_path) /\ config_path # "null"
        reads == checked /\ env.config_exists
    IN  (IF checked THEN <<"config_exists">> ELSE <<>>)
        \o (IF reads THEN <<"open", "json_load", "in_config_data">> ELSE <<>>)
        \o (IF reads /\ env.config_has_section THEN <<"update">> ELSE <<>>)
        \o <<"Model", "to", "model_exists">>
        \o (IF env.model_exists
            THEN <<"torch_load", "load_state_dict", "eval">> ELSE <<>>)

\* TRUE iff load_model enters its except clause
LoadRaises(model_path, config_path, env) ==
    /\ TORCH_AVAILABLE /\ AASIST_AVAILABLE
    /\ LET steps == LoadSteps(model_path, config_path, env)
       IN  \E i \in 1..Len(steps) : steps[i] = env.fault

\* load_model, were the except clause to return without the mock
load_model_no_fallback(self, model_path, config_path, env) ==
    IF ~TORCH_AVAILABLE \/ ~AASIST_AVAILABLE THEN load_mock_model(self)
    ELSE LET steps == LoadSteps(model_path, config_path, env)
             assigned(k) == \E i \in 1..k : steps[i] = "to"
         IN  IF LoadRaises(model_path, config_path, env)
             THEN LET k == CHOOSE i \in 1..Len(steps) : steps[i] = env.fault
                  IN  IF assigned(k - 1)
                      THEN [self EXCEPT !.model = "Model"]
                      ELSE self
             ELSE IF env.model_exists
                  THEN [self EXCEPT !.model = "Model",
                                    !.model_loaded = TRUE,
                                    !.use_mock = FALSE]
                  ELSE load_mock_model([self EXCEPT !.model = "Model"])

load_model(self, model_path, config_path, env) ==
    IF ~TORCH_AVAILABLE \/ ~AASIST_AVAILABLE THEN load_mock_model(self)
    ELSE LET steps == LoadSteps(model_path, config_path, env)
             \* self.model is assigned once Model(...).to(...) has returned
             assigned(k) == \E i \in 1..k : steps[i] = "to"
         IN  IF LoadRaises(model_path, config_path, env)
             THEN LET k == CHOOSE i \in 1..Len(steps) : steps[i] = env.fault
                  IN  load_mock_model(
                          IF assigned(k - 1)
                          THEN [self EXCEPT !.model = "Model"]
                          ELSE self)
             ELSE IF env.model_exists
                  THEN [self EXCEPT !.model = "Model",
                                    !.model_loaded = TRUE,
                                    !.use_mock = FALSE]
                  ELSE load_mock_model([self EXCEPT !.model = "Model"])

\* AASISTBridge(model_path, config_path)
AASISTBridge(model_path, config_path, env) ==
    IF Truthy(model_path) /\ model_path # "null"
    THEN load_model(NewBridge, model_path, config_path, env)
    ELSE load_mock_model(NewBridge)

\* what is remembered of a construction
CtorRecord(model_path, config_path, env) ==
    [ model_path |-> model_path,
      model_exists |-> env.model_exists,
      load_raised |-> /\ Truthy(model_path) /\ model_path # "null"
                      /\ LoadRaises(model_path, config_path, env) ]

-----------------------------------------------------------------------------
(* generate_synthetic_audio_from_text, the mock model and softmax.         *)

audio_length == 32000

scam_keywords ==
    <<"microsoft", "virus", "irs", "tax", "police", "bank", "urgent",
      "immediately">>

\* scam_score: the number of keywords that occur in the lower-cased text
scam_score(t) ==
    LET text_lower == Lower(t)
    IN  Cardinality({ i \in 1..Len(scam_keywords) :
                        Contains(text_lower, Lower(scam_keywords[i])) })

\* torch.var of a tensor of random samples: any value of the grid
Variances == { Rat(k, 10) : k \in 0..MaxVariance }

\* The waveform is a vector of audio_length random samples (the draws are
\* not seeded): the model keeps its length, the standard deviation of its
\* base noise, the components added to it and its sample variance.
generate_synthetic_audio_from_text(t) ==
    IF scam_score(t) > 0
    THEN [ length : { audio_length }, base_variance : { Rat(3, 10) },
           added : { <<"artifacts", "high_freq_noise">> },
           variance : Variances ]
    ELSE [ length : { audio_length }, base_variance : { Rat(15, 100) },
           added : { <<"natural_variation">> },
           variance : Variances ]

\* torch.clamp(x, lo, hi)
Clamp(x, lo, hi) == RMin(RMax(x, lo), hi)

\* MockAASISTModel.__call__: the logits <<bonafide, spoof>>
MockAASISTModel(audio_tensor) ==
    LET variance == audio_tensor.variance
        spoof_logit == Clamp(RSub(RMul(variance, Rat(5, 1)), Rat(2, 1)),
                             Rat(-2, 1), Rat(3, 1))
        bonafide_logit == RMul(RNeg(spoof_logit), Rat(8, 10))
    IN  <<bonafide_logit, spoof_logit>>

\* the real network is opaque: any pair of logits
RealLogits ==
    { <<Rat(b, 1), Rat(s, 1)>> : b \in -MaxLogit..MaxLogit,
                                 s \in -MaxLogit..MaxLogit }

\* the outputs self.model(audio_tensor) can produce
ModelOutputs(self, audio_tensor) ==
    IF self.use_mock THEN { MockAASISTModel(audio_tensor) } ELSE RealLogits

Probs ==
    { Rat(r[1], r[2]) : r \in
        { x \in (0..MaxDenom) \X (1..MaxDenom) : x[1] <= x[2] } }

Half == Rat(1, 2)

\* F.softmax over two logits, rounded to the grid: the probabilities
\* <<bonafide, spoof>> sum to one and are ordered as the logits are
Softmax(output) ==
    { <<RSub(One, p), p>> : p \in
        { q \in Probs :
            /\ RGt(output[2], output[1]) => RLe(Half, q)
            /\ RLt(output[2], output[1]) => RLe(q, Half)
            /\ output[2] = output[1] => q = Half } }

-----------------------------------------------------------------------------
(* detect_deepfake                                                         *)

Suffix == "_with_text_analysis"

\* the statements of the try block that can raise, in execution order
DetectStepNames ==
    <<"generate", "tensor", "to", "forward", "softmax", "item", "analyze">>

\* messages of the exceptions the libraries raise
Messages == { "CUDA out of memory", "size mismatch" }

NameErrorMessage == "name 'torch' is not defined"

\* the statement (if any) that raises, and the exception's message
NoFault == [ step |-> "none", msg |-> "" ]

DetectFaults ==
    { NoFault } \cup
    [ step : { DetectStepNames[i] : i \in 1..Len(DetectStepNames) },
      msg : Messages ]

NotLoadedResult ==
    [ is_deepfake |-> FALSE, confidence |-> Zero,
      method |-> "model_not_loaded", error |-> "AASIST model not loaded" ]

ErrorResult(msg) ==
    [ is_deepfake |-> FALSE, confidence |-> Zero,
      method |-> "inference_error", error |-> msg ]

\* Fuse, were the two weights exchanged
Fuse_swapped(spoof_prob, text_suspicion) ==
    RMin(RAdd(RMul(spoof_prob, Rat(7, 10)), RMul(text_suspicion, Rat(3, 10))),
         One)

\* Fuse, were the two weights equal
Fuse_even(spoof_prob, text_suspicion) ==
    RMin(RAdd(RMul(spoof_prob, Rat(5, 10)), RMul(text_suspicion, Rat(5, 10))),
         One)

\* combined_confidence
Fuse(spoof_prob, text_suspicion) ==
    RMin(RAdd(RMul(spoof_prob, Rat(3, 10)), RMul(text_suspicion, Rat(7, 10))),
         One)

MethodTag(self) ==
    (IF self.use_mock THEN "aasist_mock_model" ELSE "aasist_neural_network")
    \o Suffix

\* SuccessResult, were the threshold test >= instead of >
SuccessResult_nonstrict(self, probabilities, text_suspicion) ==
    LET spoof_prob == probabilities[2]
        bonafide_prob == probabilities[1]
        combined_confidence == Fuse(spoof_prob, text_suspicion)
    IN  [ is_deepfake |-> RLe(Half, combined_confidence),
          confidence |-> combined_confidence,
          method |-> MethodTag(self),
          audio_spoof_prob |-> spoof_prob,
          audio_bonafide_prob |-> bonafide_prob,
          text_suspicion |-> text_suspicion,
          model_type |-> IF self.use_mock THEN "mock" ELSE "real" ]

SuccessResult(self, probabilities, text_suspicion) ==
    LET spoof_prob == probabilities[2]
        bonafide_prob == probabilities[1]
        combined_confidence == Fuse(spoof_prob, text_suspicion)
    IN  [ is_deepfake |-> RGt(combined_confidence, Half),
          confidence |-> combined_confidence,
          method |-> MethodTag(self),
          audio_spoof_prob |-> spoof_prob,
          audio_bonafide_prob |-> bonafide_prob,
          text_suspicion |-> text_suspicion,
          model_type |-> IF self.use_mock THEN "mock" ELSE "real" ]

\* the exception the try block raises: the injected one, or the NameError
\* of the first use of torch when the import failed
DetectException(fault) ==
    IF fault.step = "generate" THEN fault
    ELSE IF ~TORCH_AVAILABLE
         THEN [ step |-> "tensor", msg |-> NameErrorMessage ]
         ELSE fault

\* the softmax values a call on this object can see
DetectProbabilities(self, text_context) ==
    UNION { Softmax(output) : output \in
        UNION { ModelOutputs(self, audio_data) : audio_data \in
                    generate_synthetic_audio_from_text(text_context) } }

\* detect_deepfake, were the text scoring outside the try block
detect_deepfake_scoring_outside_try(self, text_context) ==
    IF ~self.model_loaded
    THEN { [ self |-> self, result |-> NotLoadedResult, model_calls |-> 0,
             raised |-> NoneObject ] }
    ELSE { [ self |-> self,
             result |-> IF exc.step = "analyze"
                        THEN [ exception |-> exc.msg ]
                        ELSE ErrorResult(exc.msg),
             model_calls |-> IF exc.step \in { "generate", "tensor", "to" }
                             THEN 0 ELSE 1,
             raised |-> exc ] :
                exc \in { DetectException(f) : f \in DetectFaults }
                            \ { NoFault } }
         \cup
         (IF DetectException(NoFault) # NoFault THEN {}
          ELSE LET text_suspicion == analyze_text_patterns(text_context)
               IN  { [ self |-> self,
                       result |-> SuccessResult(self, probabilities,
                                                text_suspicion),
                       model_calls |-> 1,
                       raised |-> NoneObject ] :
                          probabilities \in
                              DetectProbabilities(self, text_context) })

\* detect_deepfake, were the except clause to drop the model
detect_deepfake_unloads_on_error(self, text_context) ==
    IF ~self.model_loaded
    THEN { [ self |-> self, result |-> NotLoadedResult, model_calls |-> 0,
             raised |-> NoneObject ] }
    ELSE { [ self |-> [self EXCEPT !.model = None, !.model_loaded = FALSE],
             result |-> ErrorResult(exc.msg),
             model_calls |-> IF exc.step \in { "generate", "tensor", "to" }
                             THEN 0 ELSE 1,
             raised |-> exc ] :
                exc \in { DetectException(f) : f \in DetectFaults }
                            \ { NoFault } }
         \cup
         (IF DetectException(NoFault) # NoFault THEN {}
          ELSE LET text_suspicion == analyze_text_patterns(text_context)
               IN  { [ self |-> self,
                       result |-> SuccessResult(self, probabilities,
                                                text_suspicion),
                       model_calls |-> 1,
                       raised |-> NoneObject ] :
                          probabilities \in
                              DetectProbabilities(self, text_context) })

\* One call self.detect_deepfake(text_context): every way it can go, given
\* the random waveform, the network's output and the statement of the try
\* block that raises.  Each outcome is the object after the call, the
\* returned dict, the number of self.model(...) calls made and the
\* exception raised inside the try block.
detect_deepfake(self, text_context) ==
    IF ~self.model_loaded
    THEN { [ self |-> self, result |-> NotLoadedResult, model_calls |-> 0,
             raised |-> NoneObject ] }
    ELSE { [ self |-> self,
             result |-> ErrorResult(exc.msg),
             model_calls |-> IF exc.step \in { "generate", "tensor", "to" }
                             THEN 0 ELSE 1,
             raised |-> exc ] :
                exc \in { DetectException(f) : f \in DetectFaults }
                            \ { NoFault } }
         \cup
         (IF DetectException(NoFault) # NoFault THEN {}
          ELSE LET text_suspicion == analyze_text_patterns(text_context)
               IN  { [ self |-> self,
                       result |-> SuccessResult(self, probabilities,
                                                text_suspicion),
                       model_calls |-> 1,
                       raised |-> NoneObject ] :
                          probabilities \in
                              DetectProbabilities(self, text_context) })

-----------------------------------------------------------------------------
(* State machine.                                                          *)

\* the texts detect_deepfake is called with
DetectTexts == { "", "fbi", "URGENT", "remote access", AllPatternsText }

TestPhrase == "Hello, how are you today?"

Prog == "aasist_bridge.py"

Argvs ==
    { <<Prog>> }
    \cup { <<Prog, c>> : c \in { "test", "status", "foo", "detect" } }
    \cup { <<Prog, "detect", m>> : m \in { "null", "", "model.pth" } }
    \cup { <<Prog, "detect", m, t>> :
             m \in { "null", "", "model.pth" }, t \in DetectTexts }
    \cup { <<Prog, "detect", m, t, c>> :
             m \in { "null", "", "model.pth" }, t \in DetectTexts,
             c \in { "null", "config.json" } }

Init ==
    /\ TORCH_AVAILABLE \in BOOLEAN
    /\ AASIST_AVAILABLE \in { a \in BOOLEAN : a => TORCH_AVAILABLE }
    /\ cuda_available \in { c \in BOOLEAN : c => TORCH_AVAILABLE }
    /\ bridge = NoneObject
    /\ ctor = NoneObject
    /\ result = NoneObject
    /\ model_calls = 0
    /\ raised = NoneObject
    /\ argv = NoArgv
    /\ stdout = NoneObject
    /\ text = None
    /\ suspicion_score = NoneNumber

\* the bridges a constructor call can produce, with what is remembered
Constructions(model_path, config_path) ==
    { <<AASISTBridge(model_path, config_path, env),
        CtorRecord(model_path, config_path, env)>> : env \in LoadEnvs }

\* the effect of one detect_deepfake call on the state
Effect(o) ==
    /\ bridge' = o.self
    /\ result' = o.result
    /\ model_calls' = o.model_calls
    /\ raised' = o.raised

\* bridge = AASISTBridge(model_path, config_path), called as a library
Construct ==
    /\ bridge = NoneObject
    /\ argv = NoArgv
    /\ \E model_path \in ModelPaths, config_path \in ConfigPaths :
         \E c \in Constructions(model_path, config_path) :
            /\ bridge' = c[1]
            /\ ctor' = c[2]
    /\ UNCHANGED <<TORCH_AVAILABLE, AASIST_AVAILABLE, cuda_available, result,
                   model_calls, raised, argv, stdout, text, suspicion_score>>

\* bridge.detect_deepfake(text_context)
DetectDeepfake ==
    /\ bridge # NoneObject
    /\ argv = NoArgv
    /\ \E o \in UNION { detect_deepfake(bridge, text_context) :
                            text_context \in DetectTexts } :
         Effect(o)
    /\ UNCHANGED <<TORCH_AVAILABLE, AASIST_AVAILABLE, cuda_available, ctor,
                   argv, stdout, text, suspicion_score>>

\* main() of a process started with the command line av
Main ==
    /\ bridge = NoneObject
    /\ argv = NoArgv
    /\ \E av \in Argvs :
        /\ argv' = av
        /\ IF Len(av) < 2
           THEN /\ stdout' = [ error |-> "No command provided" ]
                /\ UNCHANGED <<bridge, ctor, result, model_calls, raised>>
           ELSE LET command == av[2]
                    model_path ==
                        IF command = "detect" /\ Len(av) > 2 /\ av[3] # "null"
                        THEN av[3] ELSE None
                    text_context ==
                        IF command = "test" THEN TestPhrase
                        ELSE IF Len(av) > 3 THEN av[4] ELSE ""
                    config_path ==
                        IF command = "detect" /\ Len(av) > 4 /\ av[5] # "null"
                        THEN av[5] ELSE None
                IN  IF command \in { "test", "detect" }
                    THEN \E c \in Constructions(model_path, config_path) :
                           \E o \in detect_deepfake(c[1], text_context) :
                              /\ ctor' = c[2]
                              /\ Effect(o)
                              /\ stdout' = o.result
                    ELSE /\ IF command = "status"
                            THEN \E exists \in BOOLEAN :
                                   stdout' =
                                     [ torch_available |-> TORCH_AVAILABLE,
                                       aasist_available |-> AASIST_AVAILABLE,
                                       cuda_available |->
                                           IF TORCH_AVAILABLE
                                           THEN cuda_available ELSE FALSE,
                                       aasist_path_exists |-> exists ]
                            ELSE stdout' =
                                   [ error |-> "Unknown command: " \o command ]
                         /\ UNCHANGED <<bridge, ctor, result, model_calls,
                                        raised>>
    /\ UNCHANGED <<TORCH_AVAILABLE, AASIST_AVAILABLE, cuda_available, text,
                   suspicion_score>>

Next == Construct \/ DetectDeepfake \/ Main

Spec == Init /\ [][Next]_vars

\* the input of a direct call of analyze_text_patterns is any text
InitText ==
    /\ TORCH_AVAILABLE = TRUE
    /\ AASIST_AVAILABLE = FALSE
    /\ cuda_available = FALSE
    /\ bridge = NoneObject
    /\ ctor = NoneObject
    /\ result = NoneObject
    /\ model_calls = 0
    /\ raised = NoneObject
    /\ argv = NoArgv
    /\ stdout = NoneObject
    /\ text \in Texts
    /\ suspicion_score = NoneNumber

\* suspicion_score = analyze_text_patterns(text)
AnalyzeTextPatterns ==
    /\ suspicion_score = NoneNumber
    /\ suspicion_score' = analyze_text_patterns(text)
    /\ UNCHANGED <<TORCH_AVAILABLE, AASIST_AVAILABLE, cuda_available, bridge,
                   ctor, result, model_calls, raised, argv, stdout, text>>

NextText == AnalyzeTextPatterns

SpecText == InitText /\ [][NextText]_vars

-----------------------------------------------------------------------------
(* Properties.                                                             *)

IsDict(r) == r # NoneObject /\ "method" \in DOMAIN r
IsSuccess(r) == r # NoneObject /\ "model_type" \in DOMAIN r
EndsWith(s, suf) ==
    Len(suf) <= Len(s) /\ SubSeq(s, Len(s) - Len(suf) + 1, Len(s)) = suf

\* a detect_deepfake call was made on a bridge built without a model path
NoPathCall ==
    /\ bridge # NoneObject
    /\ result # NoneObject
    /\ ctor.model_path \in { None, "null" }

RanDetection ==
    /\ argv # NoArgv
    /\ Len(argv) >= 2
    /\ argv[2] \in { "test", "detect" }

\* C2: without torch, the test and detect commands print is_deepfake false,
\* confidence 0.0 and method "model_not_loaded" whatever the model path,
\* config path and text, and the model is never invoked.
C2_NoTorchNotLoaded ==
    ~TORCH_AVAILABLE =>
        /\ model_calls = 0
        /\ bridge # NoneObject => bridge.model = None /\ ~bridge.model_loaded
        /\ RanDetection =>
              /\ IsDict(stdout)
              /\ stdout.is_deepfake = FALSE
              /\ stdout.confidence = Zero
              /\ stdout.method = "model_not_loaded"

C2_Witness ==
    /\ ~TORCH_AVAILABLE
    /\ RanDetection
    /\ argv = <<Prog, "detect", "model.pth", AllPatternsText, "config.json">>
    /\ stdout.method = "model_not_loaded"

\* the bridge was built with a model path and torch is available
BuiltWithPath ==
    /\ TORCH_AVAILABLE
    /\ bridge # NoneObject
    /\ Truthy(ctor.model_path)
    /\ ctor.model_path # "null"

\* the real load ran to its end
RealLoadCompleted ==
    AASIST_AVAILABLE /\ ctor.model_exists /\ ~ctor.load_raised

\* C3: with torch, construction with a model path always ends loaded; it is
\* the mock whenever the real load did not complete, and the real model
\* only if the Model class is available, the file exists and nothing raised.
C3_AlwaysLoaded ==
    BuiltWithPath =>
        /\ bridge.model_loaded
        /\ bridge.model # None
        /\ ~RealLoadCompleted => bridge.use_mock
        /\ ~bridge.use_mock =>
              AASIST_AVAILABLE /\ ctor.model_exists /\ ~ctor.load_raised

C3_Witness ==
    /\ BuiltWithPath
    /\ AASIST_AVAILABLE
    /\ ctor.model_exists
    /\ ctor.load_raised
    /\ bridge.model_loaded
    /\ bridge.use_mock

\* C4: on a loaded adapter an exception raised at any statement of the try
\* block is returned as method "inference_error", is_deepfake false,
\* confidence 0.0 and error = the exception's message; no exception leaves
\* detect_deepfake and the model is called at most once per call.
C4_InferenceErrorCaught ==
    (bridge # NoneObject /\ result # NoneObject) =>
        /\ IsDict(result)
        /\ model_calls <= 1
        /\ raised # NoneObject =>
              /\ bridge.model_loaded
              /\ result.method = "inference_error"
              /\ result.is_deepfake = FALSE
              /\ result.confidence = Zero
              /\ result.error = raised.msg
              /\ DOMAIN result =
                    { "is_deepfake", "confidence", "method", "error" }

C4_Witness ==
    /\ bridge # NoneObject
    /\ raised # NoneObject
    /\ raised.step = "analyze"
    /\ result.method = "inference_error"
    /\ result.error = "size mismatch"
    /\ model_calls = 1

InUnit(r) == 0 <= r[1] /\ r[1] <= r[2] /\ r[2] > 0

\* C5: analyze_text_patterns returns a score in [0,1] for every text, also
\* when every pattern and the authority bonus match at once.
C5_ScoreInUnit ==
    suspicion_score # NoneNumber => InUnit(suspicion_score)

C5_Witness ==
    /\ suspicion_score = One
    /\ \A i \in 1..Len(scam_patterns) :
          PatternHit(scam_patterns[i][1], Lower(text))
    /\ \E a \in 1..Len(authorities) : Contains(Lower(text), authorities[a])

\* C6: the confidence of a successful detection is
\* min(0.3*spoof_prob + 0.7*text_suspicion, 1.0) and lies in [0,1].
C6_FusionFormula ==
    IsSuccess(result) =>
        LET s == result.audio_spoof_prob
            t == result.text_suspicion
            c == result.confidence
            \* 0.3*s + 0.7*t = num / den
            num == 3 * s[1] * t[2] + 7 * t[1] * s[2]
            den == 10 * s[2] * t[2]
        IN  /\ InUnit(s) /\ InUnit(t)
            /\ num <= den => c[1] * den = num * c[2]
            /\ num > den => c = One
            /\ InUnit(c)

C6_Witness ==
    /\ IsSuccess(result)
    /\ result.audio_spoof_prob = Rat(1, 3)
    /\ result.text_suspicion = Rat(3, 10)
    /\ result.confidence = Rat(31, 100)

\* C7: in a successful detection is_deepfake holds iff confidence > 0.5;
\* a confidence of exactly 0.5 gives is_deepfake = false.
C7_StrictThreshold ==
    IsSuccess(result) =>
        /\ result.is_deepfake <=>
              2 * result.confidence[1] > result.confidence[2]
        /\ result.confidence = Half => ~result.is_deepfake

C7_Witness ==
    /\ IsSuccess(result)
    /\ result.confidence = Half
    /\ ~result.is_deepfake

\* spaced form, fragments and weight (in tenths) of every pattern
PatternTable == <<
    [ spaced |-> "microsoft tech support",
      fragments |-> { "microsoft tech support" }, tenths |-> 8 ],
    [ spaced |-> "computer virus",
      fragments |-> { "computer virus" }, tenths |-> 7 ],
    [ spaced |-> "computer compromised",
      fragments |-> { "computer", "compromised" }, tenths |-> 7 ],
    [ spaced |-> "irs", fragments |-> { "irs" }, tenths |-> 8 ],
    [ spaced |-> "tax owe", fragments |-> { "tax", "owe" }, tenths |-> 7 ],
    [ spaced |-> "warrant arrest",
      fragments |-> { "warrant", "arrest" }, tenths |-> 9 ],
    [ spaced |-> "pay immediately",
      fragments |-> { "pay", "immediately" }, tenths |-> 6 ],
    [ spaced |-> "bank account",
      fragments |-> { "bank account" }, tenths |-> 5 ],
    [ spaced |-> "social security",
      fragments |-> { "social security" }, tenths |-> 6 ],
    [ spaced |-> "suspicious activity",
      fragments |-> { "suspicious activity" }, tenths |-> 4 ],
    [ spaced |-> "gift card", fragments |-> { "gift card" }, tenths |-> 6 ],
    [ spaced |-> "remote access",
      fragments |-> { "remote access" }, tenths |-> 5 ],
    [ spaced |-> "teamviewer", fragments |-> { "teamviewer" }, tenths |-> 7 ],
    [ spaced |-> "urgent", fragments |-> { "urgent" }, tenths |-> 3 ],
    [ spaced |-> "immediately",
      fragments |-> { "immediately" }, tenths |-> 3 ] >>

AuthorityTerms ==
    { "microsoft", "irs", "government", "police", "bank", "fbi" }

Matched(p, lowered) ==
    \/ Contains(lowered, p.spaced)
    \/ \E f \in p.fragments : Contains(lowered, f)

RECURSIVE SumTenths(_, _)
SumTenths(S, lowered) ==
    IF S = {} THEN 0
    ELSE LET i == CHOOSE j \in S : TRUE
         IN  (IF Matched(PatternTable[i], lowered)
              THEN PatternTable[i].tenths ELSE 0)
             + SumTenths(S \ { i }, lowered)

\* min(1.0, S + B)
ReferenceScore(t) ==
    LET lowered == Lower(t)
        S == SumTenths(1..Len(PatternTable), lowered)
        B == IF \E a \in AuthorityTerms : Contains(lowered, a) THEN 3 ELSE 0
    IN  IF S + B >= 10 THEN One ELSE Rat(S + B, 10)

\* C8: analyze_text_patterns(text) = min(1.0, S + B), S the summed weights
\* of the matched patterns and B the authority bonus; the empty string
\* scores 0.0 and a text whose only hit is an authority term scores 0.3.
C8_ScoreIsReference ==
    suspicion_score # NoneNumber =>
        /\ suspicion_score = ReferenceScore(text)
        /\ text = "" => suspicion_score = Zero
        /\ ( /\ \E a \in AuthorityTerms : Contains(Lower(text), a)
             /\ \A i \in 1..Len(PatternTable) :
                   ~Matched(PatternTable[i], Lower(text)) )
              => suspicion_score = Rat(3, 10)

C8_Witness ==
    /\ text = "owe"
    /\ suspicion_score = Rat(7, 10)

\* C9: detect_deepfake calls leave model_loaded, use_mock, device and the
\* model object as construction set them, so all successful results of one
\* adapter report the same model_type and method.
C9_StateFixed ==
    [][bridge # NoneObject =>
          /\ bridge' = bridge
          /\ (IsSuccess(result) /\ IsSuccess(result')) =>
                /\ result'.model_type = result.model_type
                /\ result'.method = result.method
          /\ IsSuccess(result') =>
                result'.model_type = IF bridge.use_mock THEN "mock" ELSE "real"
      ]_vars

C9_Witness ==
    /\ argv = NoArgv
    /\ bridge # NoneObject
    /\ bridge.model_loaded
    /\ ~bridge.use_mock
    /\ raised # NoneObject
    /\ result.method = "inference_error"

\* C10: with text_suspicion = 0.0 the confidence is 0.3*spoof_prob <= 0.3
\* and is_deepfake is false; with text_suspicion = 1.0 the confidence is
\* >= 0.7 and is_deepfake is true, whatever spoof_prob is.
C10_ExtremesDecide ==
    IsSuccess(result) =>
        LET s == result.audio_spoof_prob
            t == result.text_suspicion
            c == result.confidence
        IN  /\ t = Zero =>
                  /\ 10 * c[1] * s[2] = 3 * s[1] * c[2]
                  /\ 10 * c[1] <= 3 * c[2]
                  /\ ~result.is_deepfake
            /\ t = One =>
                  /\ 10 * c[1] >= 7 * c[2]
                  /\ result.is_deepfake

C10_Witness ==
    /\ IsSuccess(result)
    /\ result.text_suspicion = One
    /\ result.audio_spoof_prob = Zero
    /\ result.confidence = Rat(7, 10)
    /\ result.is_deepfake

=============================================================================
